---- MODULE Spec2Model ----
(***************************************************************************)
(* Template engine of the segment-tracking-demo generator                  *)
(* (lib/template-processor.js): replaceVariables, replaceSimpleVariables   *)
(* and getNestedValue, together with the JavaScript semantics they rely    *)
(* on (property lookup, string coercion, String.prototype.replace); the    *)
(* validators (lib/validators.js), and the workflow of main with the file  *)
(* generation it drives (generateAllFiles, generateFile, loadTemplate).     *)
(*                                                                         *)
(* A string is a sequence of one-character strings, so that the regular    *)
(* expressions of the source are matched character by character.           *)
(***************************************************************************)
EXTENDS Integers, Sequences, FiniteSets

(***************************************************************************)
(* Characters                                                              *)
(***************************************************************************)
Lower ==
    {"a","b","c","d","e","f","g","h","i","j","k","l","m",
     "n","o","p","q","r","s","t","u","v","w","x","y","z"}

Upper ==
    {"A","B","C","D","E","F","G","H","I","J","K","L","M",
     "N","O","P","Q","R","S","T","U","V","W","X","Y","Z"}

DigitChars == <<"0","1","2","3","4","5","6","7","8","9">>

Digits == {DigitChars[i] : i \in 1..10}

\* \w of a JavaScript regular expression: [A-Za-z0-9_]
WordChars == Lower \cup Upper \cup Digits \cup {"_"}

WordChar(c) == c \in WordChars

\* [\w.] of simplePattern
PathChar(c) == WordChar(c) \/ c = "."

\* the built-in property names the templates of this model spell
LENGTH == <<"l","e","n","g","t","h">>

PROTO == <<"_","_","p","r","o","t","o","_","_">>

(***************************************************************************)
(* JavaScript values.  A mapping keeps its properties as a sequence of     *)
(* <<key, value>> pairs; "proto" values are the built-in prototype objects *)
(* a property walk can reach from the values of a data context.            *)
(***************************************************************************)
Undefined == [t |-> "undefined"]

Null == [t |-> "null"]

Str(s) == [t |-> "string", v |-> s]

Num(n) == [t |-> "number", v |-> n]

Bool(b) == [t |-> "boolean", v |-> b]

Obj(props) == [t |-> "object", v |-> props]

Arr(elems) == [t |-> "array", v |-> elems]

BuiltinProto(name) == [t |-> "proto", v |-> name]

\* Array.isArray(v): Array.prototype is itself an array exotic object
IsArray(v) == v.t = "array" \/ (v.t = "proto" /\ v.v = "Array")

\* typeof v === 'object' (arrays and null included)
TypeofObject(v) == v.t \in {"object", "array", "null", "proto"}

\* the elements array.map visits
Elements(v) == IF v.t = "array" THEN v.v ELSE <<>>

(***************************************************************************)
(* Number -> decimal string, and canonical array index -> number           *)
(***************************************************************************)
RECURSIVE NumToStr(_)
NumToStr(n) ==
    IF n < 10 THEN <<DigitChars[n + 1]>>
    ELSE NumToStr(n \div 10) \o <<DigitChars[(n % 10) + 1]>>

DigitVal(c) == CHOOSE i \in 0..9 : DigitChars[i + 1] = c

RECURSIVE StrToNum(_)
StrToNum(s) ==
    IF Len(s) = 0 THEN 0
    ELSE 10 * StrToNum(SubSeq(s, 1, Len(s) - 1)) + DigitVal(s[Len(s)])

\* a canonical numeric string: digits only, no leading zero except "0"
IsIndex(key) ==
    /\ Len(key) > 0
    /\ \A i \in 1..Len(key) : key[i] \in Digits
    /\ (Len(key) > 1 => key[1] # "0")

(***************************************************************************)
(* Property lookup current[key] for a current that is neither undefined    *)
(* nor null.                                                               *)
(***************************************************************************)
\* own and inherited properties of a built-in prototype object
ProtoGet(name, key) ==
    IF key = PROTO
      THEN (IF name = "Object" THEN Null ELSE BuiltinProto("Object"))
    ELSE IF key = LENGTH /\ name \in {"String", "Array"}
      THEN Num(0)
    ELSE Undefined

OwnKeys(props) == {props[i][1] : i \in 1..Len(props)}

OwnValue(props, key) ==
    props[CHOOSE i \in 1..Len(props) : props[i][1] = key][2]

GetProperty(current, key) ==
    CASE current.t = "object" ->
           IF key \in OwnKeys(current.v) THEN OwnValue(current.v, key)
           ELSE IF key = PROTO THEN BuiltinProto("Object")
           ELSE ProtoGet("Object", key)
      [] current.t = "array" ->
           IF key = LENGTH THEN Num(Len(current.v))
           ELSE IF IsIndex(key) /\ StrToNum(key) < Len(current.v)
             THEN current.v[StrToNum(key) + 1]
           ELSE IF key = PROTO THEN BuiltinProto("Array")
           ELSE ProtoGet("Array", key)
      [] current.t = "string" ->
           IF key = LENGTH THEN Num(Len(current.v))
           ELSE IF IsIndex(key) /\ StrToNum(key) < Len(current.v)
             THEN Str(<<current.v[StrToNum(key) + 1]>>)
           ELSE IF key = PROTO THEN BuiltinProto("String")
           ELSE ProtoGet("String", key)
      [] current.t = "number" ->
           IF key = PROTO THEN BuiltinProto("Number") ELSE ProtoGet("Number", key)
      [] current.t = "boolean" ->
           IF key = PROTO THEN BuiltinProto("Boolean") ELSE ProtoGet("Boolean", key)
      [] current.t = "proto" -> ProtoGet(current.v, key)

(***************************************************************************)
(* String coercion, as String.prototype.replace applies it to a            *)
(* replacement value and to the result of a replacement function.          *)
(***************************************************************************)
ObjectObject ==
    <<"[","o","b","j","e","c","t"," ","O","b","j","e","c","t","]">>

RECURSIVE JSToString(_)
RECURSIVE JoinElements(_, _)
JoinElements(elems, i) ==
    IF i > Len(elems) THEN <<>>
    ELSE (IF i > 1 THEN <<",">> ELSE <<>>)
         \o (IF elems[i].t \in {"undefined", "null"} THEN <<>>
             ELSE JSToString(elems[i]))
         \o JoinElements(elems, i + 1)

JSToString(v) ==
    CASE v.t = "string" -> v.v
      [] v.t = "number" -> NumToStr(v.v)
      [] v.t = "boolean" ->
           IF v.v THEN <<"t","r","u","e">> ELSE <<"f","a","l","s","e">>
      [] v.t = "null" -> <<"n","u","l","l">>
      [] v.t = "undefined" -> <<"u","n","d","e","f","i","n","e","d">>
      [] v.t = "object" -> ObjectObject
      [] v.t = "array" -> JoinElements(v.v, 1)
      [] v.t = "proto" ->
           CASE v.v = "Object" -> ObjectObject
             [] v.v = "Number" -> <<"0">>
             [] v.v = "Boolean" -> <<"f","a","l","s","e">>
             [] OTHER -> <<>>

(***************************************************************************)
(* getNestedValue(obj, path)                                               *)
(***************************************************************************)
\* outcome of a computation that may raise a TypeError
Returned(v) == [thrown |-> FALSE, value |-> v]

Raised == [thrown |-> TRUE, value |-> Undefined]

\* path.split('.')
RECURSIVE Split(_, _, _)
Split(path, i, acc) ==
    IF i > Len(path) THEN <<acc>>
    ELSE IF path[i] = "." THEN <<acc>> \o Split(path, i + 1, <<>>)
    ELSE Split(path, i + 1, Append(acc, path[i]))

\* the reduce callback: current !== undefined ? current[key] : undefined;
\* reading a property of null raises a TypeError
RECURSIVE Reduce(_, _, _)
Reduce(keys, i, current) ==
    IF i > Len(keys) THEN Returned(current)
    ELSE IF current.t = "undefined" THEN Reduce(keys, i + 1, Undefined)
    ELSE IF current.t = "null" THEN Raised
    ELSE Reduce(keys, i + 1, GetProperty(current, keys[i]))

getNestedValue(obj, path) == Reduce(Split(path, 1, <<>>), 1, obj)

(***************************************************************************)
(* String.prototype.replace with a global regular expression: the string   *)
(* is scanned left to right, a match is replaced and the scan resumes      *)
(* after it; a character at which no match starts is copied.               *)
(***************************************************************************)
StartsWith(s, i, lit) ==
    /\ i + Len(lit) - 1 <= Len(s)
    /\ \A k \in 1..Len(lit) : s[i + k - 1] = lit[k]

Least(S) == CHOOSE j \in S : \A k \in S : j <= k

\* last index of the longest run of characters of a class starting at i
\* (i - 1 when s[i] is not of the class)
RECURSIVE WordRunEnd(_, _)
WordRunEnd(s, i) ==
    IF i <= Len(s) /\ WordChar(s[i]) THEN WordRunEnd(s, i + 1) ELSE i - 1

RECURSIVE PathRunEnd(_, _)
PathRunEnd(s, i) ==
    IF i <= Len(s) /\ PathChar(s[i]) THEN PathRunEnd(s, i + 1) ELSE i - 1

OPEN == <<"{","{">>

CLOSE == <<"}","}">>

SELF == <<"{","{",".","}","}">>

\* the pattern without its closing braces: /\{\{([\w.]+)/
SimpleMatchEndUnclosed(s, i) ==
    IF StartsWith(s, i, OPEN) /\ PathRunEnd(s, i + 2) >= i + 2
      THEN PathRunEnd(s, i + 2)
      ELSE 0

\* simplePattern /\{\{([\w.]+)\}\}/ at position i: the index of the last
\* character of the match, 0 when the pattern does not match at i
SimpleMatchEnd(s, i) ==
    IF /\ StartsWith(s, i, OPEN)
       /\ PathRunEnd(s, i + 2) >= i + 2
       /\ StartsWith(s, PathRunEnd(s, i + 2) + 1, CLOSE)
      THEN PathRunEnd(s, i + 2) + 2
      ELSE 0

SimpleMatches(s, i) == SimpleMatchEnd(s, i) > 0

SimplePath(s, i) == SubSeq(s, i + 2, PathRunEnd(s, i + 2))

SimpleEnd(s, i) == SimpleMatchEnd(s, i)

\* arrayPattern /\{\{#(\w+)\}\}([\s\S]*?)\{\{\/\1\}\}/ at position i
SectionName(s, i) == SubSeq(s, i + 3, WordRunEnd(s, i + 3))

EndMarker(name) == <<"{","{","/">> \o name \o CLOSE

SectionOpens(s, i) ==
    /\ StartsWith(s, i, <<"{","{","#">>)
    /\ WordRunEnd(s, i + 3) >= i + 3
    /\ StartsWith(s, WordRunEnd(s, i + 3) + 1, CLOSE)

BodyStart(s, i) == WordRunEnd(s, i + 3) + 3

\* the lazy quantifier stops at the first end marker of the same name
BodyStops(s, i) ==
    {j \in BodyStart(s, i)..Len(s) : StartsWith(s, j, EndMarker(SectionName(s, i)))}

SectionMatches(s, i) == SectionOpens(s, i) /\ BodyStops(s, i) # {}

\* a greedy quantifier runs to the last end marker of the same name
BodyStopGreedy(s, i) ==
    CHOOSE j \in BodyStops(s, i) : \A k \in BodyStops(s, i) : k <= j

BodyStop(s, i) == Least(BodyStops(s, i))

SectionBody(s, i) == SubSeq(s, BodyStart(s, i), BodyStop(s, i) - 1)

SectionEnd(s, i) == BodyStop(s, i) + Len(SectionName(s, i)) + 4

(***************************************************************************)
(* replaceSimpleVariables(template, data)                                  *)
(***************************************************************************)
\* a replacement function that tests the value for truth: value ? value : match
SimpleReplacementTruthy(match, value) ==
    IF \/ value.t \in {"undefined", "null"}
       \/ value = Str(<<>>) \/ value = Num(0) \/ value = Bool(FALSE)
      THEN match ELSE JSToString(value)

\* the replacement function: value !== undefined ? value : match
SimpleReplacement(match, value) ==
    IF value.t # "undefined" THEN JSToString(value) ELSE match

\* the positions from i on at which simplePattern matches
SimpleStarts(s, i) == {j \in i..Len(s) : SimpleMatches(s, j)}

RECURSIVE SimpleFrom(_, _, _)
SimpleFrom(s, i, data) ==
    IF SimpleStarts(s, i) = {} THEN Returned(SubSeq(s, i, Len(s)))
    ELSE LET j == Least(SimpleStarts(s, i))
             got == getNestedValue(data, SimplePath(s, j))
             rest == SimpleFrom(s, SimpleEnd(s, j) + 1, data)
         IN  IF got.thrown \/ rest.thrown THEN Raised
             ELSE Returned(
                    SubSeq(s, i, j - 1)
                    \o SimpleReplacement(SubSeq(s, j, SimpleEnd(s, j)), got.value)
                    \o rest.value)

replaceSimpleVariables(template, data) == SimpleFrom(template, 1, data)

(***************************************************************************)
(* itemResult.replace(/\{\{\.\}\}/g, item): the item is a replacement      *)
(* VALUE, so its string form is a replacement pattern in which $$, $&,     *)
(* $` and $' are special (the expression has no capture group, so $1..$99  *)
(* stay as written).                                                       *)
(***************************************************************************)
RECURSIVE GetSubstitution(_, _, _, _, _)
GetSubstitution(repl, k, matched, before, after) ==
    IF k > Len(repl) THEN <<>>
    ELSE IF repl[k] = "$" /\ k < Len(repl) /\ repl[k + 1] \in {"$", "&", "`", "'"}
      THEN (CASE repl[k + 1] = "$" -> <<"$">>
              [] repl[k + 1] = "&" -> matched
              [] repl[k + 1] = "`" -> before
              [] repl[k + 1] = "'" -> after)
           \o GetSubstitution(repl, k + 2, matched, before, after)
    ELSE <<repl[k]>> \o GetSubstitution(repl, k + 1, matched, before, after)

SelfStarts(s, i) == {j \in i..Len(s) : StartsWith(s, j, SELF)}

RECURSIVE SelfFrom(_, _, _)
SelfFrom(s, i, repl) ==
    IF SelfStarts(s, i) = {} THEN SubSeq(s, i, Len(s))
    ELSE LET j == Least(SelfStarts(s, i))
         IN  SubSeq(s, i, j - 1)
             \o GetSubstitution(repl, 1, SELF, SubSeq(s, 1, j - 1),
                                SubSeq(s, j + 5, Len(s)))
             \o SelfFrom(s, j + 5, repl)

replaceSelf(innerTemplate, item) == SelfFrom(innerTemplate, 1, JSToString(item))

(***************************************************************************)
(* replaceVariables, pass 1: the replacement function of arrayPattern      *)
(***************************************************************************)
\* the body of array.map's callback for one item
expandItem(innerTemplate, item) ==
    IF TypeofObject(item)
      THEN replaceSimpleVariables(replaceSelf(innerTemplate, item), item)
      ELSE Returned(replaceSelf(innerTemplate, item))

\* array.map(...).join('')
RECURSIVE mapJoin(_, _, _)
mapJoin(innerTemplate, items, n) ==
    IF n > Len(items) THEN Returned(<<>>)
    ELSE LET one == expandItem(innerTemplate, items[n])
             rest == mapJoin(innerTemplate, items, n + 1)
         IN  IF one.thrown \/ rest.thrown THEN Raised
             ELSE Returned(one.value \o rest.value)

\* a value that is no array leaves the body in place
expandSectionKeepsBody(d, arrayName, innerTemplate) ==
    LET array == getNestedValue(d, arrayName)
    IN  IF array.thrown THEN Raised
        ELSE IF ~IsArray(array.value) THEN Returned(innerTemplate)
        ELSE mapJoin(innerTemplate, Elements(array.value), 1)

expandSection(d, arrayName, innerTemplate) ==
    LET array == getNestedValue(d, arrayName)
    IN  IF array.thrown THEN Raised
        ELSE IF ~IsArray(array.value) THEN Returned(<<>>)
        ELSE mapJoin(innerTemplate, Elements(array.value), 1)

\* the positions from i on at which arrayPattern matches
SectionStarts(s, i) == {j \in i..Len(s) : SectionMatches(s, j)}

RECURSIVE SectionsFrom(_, _, _)
SectionsFrom(s, i, data) ==
    IF SectionStarts(s, i) = {} THEN Returned(SubSeq(s, i, Len(s)))
    ELSE LET j == Least(SectionStarts(s, i))
             one == expandSection(data, SectionName(s, j), SectionBody(s, j))
             rest == SectionsFrom(s, SectionEnd(s, j) + 1, data)
         IN  IF one.thrown \/ rest.thrown THEN Raised
             ELSE Returned(SubSeq(s, i, j - 1) \o one.value \o rest.value)

\* a section pass that runs again over its own output
replaceSectionsNested(template, data) ==
    LET once == SectionsFrom(template, 1, data)
    IN  IF once.thrown THEN Raised ELSE SectionsFrom(once.value, 1, data)

replaceSections(template, data) == SectionsFrom(template, 1, data)

\* replaceVariables(template, data): pass 1, then pass 2 on its result
replaceVariables(tpl, d) ==
    LET expanded == replaceSections(tpl, d)
    IN  IF expanded.thrown THEN Raised
        ELSE replaceSimpleVariables(expanded.value, d)

(***************************************************************************)
(* The validators (lib/validators.js) and the string and path functions    *)
(* that main relies on                                                     *)
(***************************************************************************)
\* \s of a regular expression and the characters trim() removes, as far as
\* a line read from the terminal can carry them
WhiteSpace == {" ", "\t"}

RECURSIVE trimStart(_)
trimStart(s) ==
    IF s # <<>> /\ Head(s) \in WhiteSpace THEN trimStart(Tail(s)) ELSE s

RECURSIVE trimEnd(_)
trimEnd(s) ==
    IF s # <<>> /\ s[Len(s)] \in WhiteSpace
      THEN trimEnd(SubSeq(s, 1, Len(s) - 1)) ELSE s

\* String.prototype.trim
trim(s) == trimEnd(trimStart(s))

\* [<>:"/\\|?*]
UnsafeChars == {"<", ">", ":", "\"", "/", "\\", "|", "?", "*"}

\* .replace(/[<>:"/\\|?*]/g, '')
RECURSIVE removeUnsafe(_)
removeUnsafe(s) ==
    IF s = <<>> THEN <<>>
    ELSE IF Head(s) \in UnsafeChars THEN removeUnsafe(Tail(s))
    ELSE <<Head(s)>> \o removeUnsafe(Tail(s))

\* .replace(/\s+/g, '-'): every run of white space becomes one hyphen
RECURSIVE hyphenate(_)
hyphenate(s) ==
    IF s = <<>> THEN <<>>
    ELSE IF Head(s) \in WhiteSpace THEN <<"-">> \o hyphenate(trimStart(s))
    ELSE <<Head(s)>> \o hyphenate(Tail(s))

LowerCaseLetters ==
    <<"a","b","c","d","e","f","g","h","i","j","k","l","m",
      "n","o","p","q","r","s","t","u","v","w","x","y","z">>

UpperCaseLetters ==
    <<"A","B","C","D","E","F","G","H","I","J","K","L","M",
      "N","O","P","Q","R","S","T","U","V","W","X","Y","Z">>

\* String.prototype.toLowerCase
toLowerCase(s) ==
    [k \in 1..Len(s) |->
       IF s[k] \in Upper
         THEN LowerCaseLetters[CHOOSE j \in 1..26 : UpperCaseLetters[j] = s[k]]
         ELSE s[k]]

\* !value || value.trim().length === 0
Blank(s) == s = <<>> \/ trim(s) = <<>>

\* /^[a-zA-Z0-9]+$/.test(s)
AlphaNumeric(s) ==
    /\ s # <<>>
    /\ \A k \in 1..Len(s) : s[k] \in Lower \cup Upper \cup Digits

SPA == <<"s","p","a","_">>

validateCompanyName(companyName) ==
    IF Blank(companyName)
      THEN [valid |-> FALSE, error |-> "Company name cannot be empty",
            sanitized |-> <<>>]
    ELSE LET sanitized ==
               toLowerCase(hyphenate(removeUnsafe(trim(companyName))))
         IN  IF Len(sanitized) = 0
               THEN [valid |-> FALSE,
                     error |-> "Company name contains only invalid characters",
                     sanitized |-> <<>>]
               ELSE [valid |-> TRUE, error |-> "", sanitized |-> sanitized]

validateWriteKey(writeKey) ==
    IF Blank(writeKey)
      THEN [valid |-> FALSE, error |-> "Write Key cannot be empty"]
    ELSE LET trimmed == trim(writeKey)
         IN  IF ~AlphaNumeric(trimmed)
               THEN [valid |-> FALSE,
                     error |-> "Write Key should only contain letters and numbers"]
               ELSE [valid |-> TRUE, error |-> ""]

validateApiToken(apiToken) ==
    IF Blank(apiToken)
      THEN [valid |-> FALSE, error |-> "Profiles API Token cannot be empty"]
      ELSE [valid |-> TRUE, error |-> ""]

validateSpaceId(spaceId) ==
    IF Blank(spaceId)
      THEN [valid |-> FALSE, error |-> "Space ID cannot be empty"]
    ELSE LET trimmed == trim(spaceId)
         IN  IF ~StartsWith(trimmed, 1, SPA)
               THEN [valid |-> FALSE,
                     error |-> "Space ID should start with \"spa_\""]
               ELSE [valid |-> TRUE, error |-> ""]

validateIndustry(industry) ==
    IF Blank(industry)
      THEN [valid |-> FALSE, error |-> "Industry cannot be empty"]
      ELSE [valid |-> TRUE, error |-> ""]

\* .replace(/\.\./g, '')
RECURSIVE removeDotDot(_)
removeDotDot(s) ==
    IF s = <<>> THEN <<>>
    ELSE IF StartsWith(s, 1, <<".", ".">>)
      THEN removeDotDot(SubSeq(s, 3, Len(s)))
    ELSE <<Head(s)>> \o removeDotDot(Tail(s))

\* .replace(/\/+/g, '/')
RECURSIVE collapseSlashes(_)
collapseSlashes(s) ==
    IF s = <<>> THEN <<>>
    ELSE IF Head(s) = "/" /\ Len(s) > 1 /\ s[2] = "/"
      THEN collapseSlashes(Tail(s))
    ELSE <<Head(s)>> \o collapseSlashes(Tail(s))

\* exported by lib/validators.js; main does not import it
sanitizePath(path) ==
    IF path = <<>> THEN <<>>
    ELSE trim(collapseSlashes(removeDotDot(path)))

\* path.split('/')
RECURSIVE Segments(_, _, _)
Segments(path, i, acc) ==
    IF i > Len(path) THEN <<acc>>
    ELSE IF path[i] = "/" THEN <<acc>> \o Segments(path, i + 1, <<>>)
    ELSE Segments(path, i + 1, Append(acc, path[i]))

\* the segments path.normalize keeps: '' and '.' are dropped, '..' removes
\* the segment before it, is dropped at the root and kept otherwise
RECURSIVE normalizeSegments(_, _, _, _)
normalizeSegments(segs, k, kept, isAbsolute) ==
    IF k > Len(segs) THEN kept
    ELSE IF segs[k] \in {<<>>, <<".">>}
      THEN normalizeSegments(segs, k + 1, kept, isAbsolute)
    ELSE IF segs[k] = <<".", ".">>
      THEN IF kept # <<>> /\ kept[Len(kept)] # <<".", ".">>
             THEN normalizeSegments(segs, k + 1,
                                    SubSeq(kept, 1, Len(kept) - 1), isAbsolute)
           ELSE IF isAbsolute
             THEN normalizeSegments(segs, k + 1, kept, isAbsolute)
           ELSE normalizeSegments(segs, k + 1, Append(kept, segs[k]), isAbsolute)
    ELSE normalizeSegments(segs, k + 1, Append(kept, segs[k]), isAbsolute)

RECURSIVE joinSegments(_, _)
joinSegments(segs, k) ==
    IF k > Len(segs) THEN <<>>
    ELSE IF k = Len(segs) THEN segs[k]
    ELSE segs[k] \o <<"/">> \o joinSegments(segs, k + 1)

\* path.normalize (POSIX)
normalize(path) ==
    LET isAbsolute == path # <<>> /\ path[1] = "/"
        trailing == path # <<>> /\ path[Len(path)] = "/"
        kept == normalizeSegments(Segments(path, 1, <<>>), 1, <<>>, isAbsolute)
        body == joinSegments(kept, 1)
    IN  IF body = <<>>
          THEN IF isAbsolute THEN <<"/">>
               ELSE IF trailing THEN <<".", "/">> ELSE <<".">>
          ELSE (IF isAbsolute THEN <<"/">> ELSE <<>>) \o body
               \o (IF trailing THEN <<"/">> ELSE <<>>)

\* path.join(a, b) (POSIX): the non-empty arguments joined by '/', normalized
pathJoin(a, b) ==
    IF a = <<>> /\ b = <<>> THEN <<".">>
    ELSE IF a = <<>> THEN normalize(b)
    ELSE IF b = <<>> THEN normalize(a)
    ELSE normalize(a \o <<"/">> \o b)

(***************************************************************************)
(* main (the skill's entry point): what the terminal and the disk give it  *)
(***************************************************************************)
\* answers to 'Company name: '
CompanyNameAnswers ==
    {<<>>,
     <<" ">>,
     <<"<",">">>,
     <<"A","c","m","e"," ","C","o">>,
     <<".",".">>}

\* answers to 'Industry (e.g., Travel, SaaS, E-Commerce): '
IndustryAnswers ==
    {<<>>,
     <<"S","a","a","S">>}

\* answers to 'Segment Write Key: '
WriteKeyAnswers ==
    {<<>>,
     <<"a","-","b">>,
     <<"a","b","1">>,
     <<" ","a","b","1"," ">>}

\* answers to 'Profiles API Token: '
ApiTokenAnswers ==
    {<<" ">>,
     <<"t","o","k">>}

\* answers to 'Space ID: '
SpaceIdAnswers ==
    {<<>>,
     <<"a","b","c">>,
     <<"s","p","a","_","1">>,
     <<" ","s","p","a","_","1">>}

\* answers to 'AI model (opus/sonnet) [sonnet]: '
AiModelAnswers ==
    {<<>>,
     <<"O","p","u","s">>}

\* answers to 'Output directory (default: current directory): '
OutputDirAnswers ==
    {<<>>,
     <<"o","u","t">>,
     <<".",".","/","o","u","t">>,
     <<"a","/",".",".","/",".",".">>,
     <<"/","t","m","p">>}

\* answers to 'Company website (optional): '
WebsiteAnswers ==
    {<<>>,
     <<"w",".","i","o">>}

\* answers to 'Additional notes/context (optional): '
NotesAnswers ==
    {<<>>}

SONNET == <<"s","o","n","n","e","t">>

DOT == <<".">>

DEMO == <<"-","d","e","m","o">>

\* the template -> output mappings, in the order of the array literal
filesReversed ==
    <<[template |-> <<"p","a","c","k","a","g","e",".","j","s","o","n",".","t","e","m","p","l","a","t","e">>,
       output |-> <<"p","a","c","k","a","g","e",".","j","s","o","n">>],
      [template |-> <<"s","e","r","v","e","r",".","j","s",".","t","e","m","p","l","a","t","e">>,
       output |-> <<"s","e","r","v","e","r",".","j","s">>],
      [template |-> <<"a","p","p",".","j","s",".","t","e","m","p","l","a","t","e">>,
       output |-> <<"a","p","p",".","j","s">>],
      [template |-> <<"i","n","d","e","x",".","h","t","m","l",".","t","e","m","p","l","a","t","e">>,
       output |-> <<"i","n","d","e","x",".","h","t","m","l">>]>>

\* lines 120-125: const files = [...]
files ==
    <<[template |-> <<"i","n","d","e","x",".","h","t","m","l",".","t","e","m","p","l","a","t","e">>,
       output |-> <<"i","n","d","e","x",".","h","t","m","l">>],
      [template |-> <<"a","p","p",".","j","s",".","t","e","m","p","l","a","t","e">>,
       output |-> <<"a","p","p",".","j","s">>],
      [template |-> <<"s","e","r","v","e","r",".","j","s",".","t","e","m","p","l","a","t","e">>,
       output |-> <<"s","e","r","v","e","r",".","j","s">>],
      [template |-> <<"p","a","c","k","a","g","e",".","j","s","o","n",".","t","e","m","p","l","a","t","e">>,
       output |-> <<"p","a","c","k","a","g","e",".","j","s","o","n">>]>>

\* the template files the disk may hold
TemplateFiles == {files[k].template : k \in 1..Len(files)}

(***************************************************************************)
(* replaceVariables as a state machine: one step per statement of its      *)
(* body.  pc names the statement about to run.                             *)
(***************************************************************************)
VARIABLES
    template,   \* argument: the template string
    data,       \* argument: the data object (the caller's object itself)
    given,      \* the arguments as the caller held them when it called
    result,     \* the local variable result
    pc,         \* "call", "sections", "simple", "return", "returned", "raised"
    passes,     \* the passes this call has run so far, in order
    calls,      \* number of calls made so far
    othersCalled, \* a call on another pair has been made
    first,      \* <<template, data, outcome>> of the first call, once it ended
    mpc,        \* main: the question or step it is at
    locals,     \* main: its local variables
    last,       \* main: the last question asked, the answer it got and the
                \* error message printed for it
    asked,      \* main: the questions asked so far
    accepted,   \* main: the validated fields, in the order they were accepted
    called,     \* main: the calls made after the questions, in order
    console,    \* main: the messages printed after the questions
    error,      \* main: the message of the error that ended the run
    demoDirExists,   \* disk: the demo directory is there
    existed,    \* disk: the demo directory was there when main started
    templatesOnDisk, \* disk: the template files that are there
    written     \* disk: the paths written by this run, in order

engineVars ==
    <<template, data, given, result, pc, passes, calls, othersCalled, first>>

mainVars ==
    <<mpc, locals, last, asked, accepted, called, console, error,
      demoDirExists, existed, templatesOnDisk, written>>

vars == <<engineVars, mainVars>>

\* simple substitution first
PassOrderSwapped == <<"simple", "sections">>

\* the two replace statements of the body, in program order
PassOrder == <<"sections", "simple">>

\* result kept from the previous call
InitialResultStale(tpl, previous) == IF previous = <<>> THEN tpl ELSE previous

\* let result = template
InitialResult(tpl, previous) == tpl

\* a loop that consumes the array with shift()
afterMapShift(elems) == <<>>

\* array.map, String.prototype.replace and the reduce of getNestedValue
\* only read the array they are applied to
afterMap(elems) == elems

\* the names of the sections the scan of arrayPattern replaces
RECURSIVE VisitedNames(_, _)
VisitedNames(s, i) ==
    IF SectionStarts(s, i) = {} THEN {}
    ELSE LET j == Least(SectionStarts(s, i))
         IN  {SectionName(s, j)} \cup VisitedNames(s, SectionEnd(s, j) + 1)

\* the data object after pass 1 has run over s
dataAfterSections(s, d) ==
    LET visited == VisitedNames(s, 1)
    IN  Obj([k \in 1..Len(d.v) |->
               IF d.v[k][1] \in visited /\ d.v[k][2].t = "array"
                 THEN <<d.v[k][1], Arr(afterMap(d.v[k][2].v))>>
                 ELSE d.v[k]])

\* where control goes after a pass
AfterPass ==
    IF Len(passes) + 1 < Len(PassOrder) THEN PassOrder[Len(passes) + 2]
    ELSE "return"

Outcome ==
    IF pc = "raised" THEN Raised ELSE Returned(result)

(***************************************************************************)
(* Inputs.  Keys: n (a name), i (items), t (tags), u (a user), c (a city); *)
(* q is a key no context carries.                                          *)
(***************************************************************************)
\* {}
Empty == Obj(<<>>)

\* {n: "Jo", i: [{n: "A"}, {}], t: ["p", "$&", 7], u: {c: "x"}}
Full ==
    Obj(<< <<<<"n">>, Str(<<"J","o">>)>>,
           <<<<"i">>, Arr(<<Obj(<< <<<<"n">>, Str(<<"A">>)>> >>), Obj(<<>>)>>)>>,
           <<<<"t">>, Arr(<<Str(<<"p">>), Str(<<"$","&">>), Num(7)>>)>>,
           <<<<"u">>, Obj(<< <<<<"c">>, Str(<<"x">>)>> >>)>> >>)

\* {n: 0, i: [], t: true, u: "s"}
Odd ==
    Obj(<< <<<<"n">>, Num(0)>>,
           <<<<"i">>, Arr(<<>>)>>,
           <<<<"t">>, Bool(TRUE)>>,
           <<<<"u">>, Str(<<"s">>)>> >>)

Contexts == {Empty, Full, Odd}

\* text before the section
PreTexts ==
    {<<>>,
     <<"a">>,
     <<"{","{">>,
     <<"{","{","n","}","}">>}

\* text after the section
PostTexts ==
    {<<>>,
     <<"b">>,
     <<"n","}","}">>,
     <<"{","{","n","}">>,
     <<"{","{","n"," ","q","}","}">>,
     <<"{","{","q","}","}">>,
     <<"{","{","u",".","c","}","}">>,
     <<"{","{","u",".","q",".","c","}","}">>,
     <<"{","{","n",".","l","e","n","g","t","h","}","}">>,
     <<"{","{","i",".","0","}","}">>,
     <<"{","{","_","_","p","r","o","t","o","_","_","}","}">>,
     <<"{","{","_","_","p","r","o","t","o","_","_",".","_","_","p","r","o","t","o","_","_",".","n","}","}">>}

\* section bodies
Bodies ==
    {<<>>,
     <<"x">>,
     <<"[","{","{",".","}","}","]">>,
     <<"{","{","n","}","}">>,
     <<"<","{","{","n","}","}","{","{",".","}","}",">">>,
     <<"{","{","u",".","c","}","}">>,
     <<"{","{","_","_","p","r","o","t","o","_","_",".","_","_","p","r","o","t","o","_","_",".","n","}","}">>}

\* section names
Names ==
    {<<"i">>,
     <<"t">>,
     <<"n">>,
     <<"u">>,
     <<"q">>}

StartMarker(name) == <<"{","{","#">> \o name \o CLOSE

Sections ==
    {<<>>} \cup {StartMarker(N) \o B \o EndMarker(N) : N \in Names, B \in Bodies}

Templates == {pre \o sec \o post : pre \in PreTexts, sec \in Sections, post \in PostTexts}

\* {n: false, i: [{u: {c: "E"}}, ["k"]], t: ["{{n}}"], u: {c: ""}}
Tricky ==
    Obj(<< <<<<"n">>, Bool(FALSE)>>,
           <<<<"i">>, Arr(<<Obj(<< <<<<"u">>, Obj(<< <<<<"c">>, Str(<<"E">>)>> >>)>> >>),
                            Arr(<<Str(<<"k">>)>>)>>)>>,
           <<<<"t">>, Arr(<<Str(<<"{","{","n","}","}">>)>>)>>,
           <<<<"u">>, Obj(<< <<<<"c">>, Str(<<>>)>> >>)>> >>)

CaseContexts == {Full, Odd, Tricky}

\* a section of another name inside a section
NestedTemplates ==
    {<<"{","{","#","i","}","}","{","{","#","t","}","}","{","{","/","t","}","}","{","{","/","i","}","}">>,
     <<"{","{","#","i","}","}","{","{","#","t","}","}","x","{","{","/","t","}","}","{","{","/","i","}","}">>,
     <<"{","{","#","i","}","}","{","{","#","n","}","}","{","{","/","n","}","}","{","{","/","i","}","}">>,
     <<"{","{","#","i","}","}","{","{","#","n","}","}","x","{","{","/","n","}","}","{","{","/","i","}","}">>,
     <<"{","{","#","i","}","}","{","{","#","q","}","}","{","{","/","q","}","}","{","{","/","i","}","}">>,
     <<"{","{","#","i","}","}","{","{","#","q","}","}","x","{","{","/","q","}","}","{","{","/","i","}","}">>,
     <<"{","{","#","t","}","}","{","{","#","i","}","}","{","{","/","i","}","}","{","{","/","t","}","}">>,
     <<"{","{","#","t","}","}","{","{","#","i","}","}","x","{","{","/","i","}","}","{","{","/","t","}","}">>,
     <<"{","{","#","t","}","}","{","{","#","n","}","}","{","{","/","n","}","}","{","{","/","t","}","}">>,
     <<"{","{","#","t","}","}","{","{","#","n","}","}","x","{","{","/","n","}","}","{","{","/","t","}","}">>,
     <<"{","{","#","t","}","}","{","{","#","q","}","}","{","{","/","q","}","}","{","{","/","t","}","}">>,
     <<"{","{","#","t","}","}","{","{","#","q","}","}","x","{","{","/","q","}","}","{","{","/","t","}","}">>}

\* one placeholder as the body of a section
ScopeTemplates ==
    {<<"{","{","#","i","}","}","{","{","u",".","c","}","}","{","{","/","i","}","}">>,
     <<"{","{","#","t","}","}","{","{","u",".","c","}","}","{","{","/","t","}","}">>,
     <<"{","{","#","i","}","}","{","{","n","}","}","{","{","/","i","}","}">>,
     <<"{","{","#","t","}","}","{","{","n","}","}","{","{","/","t","}","}">>,
     <<"{","{","#","i","}","}","{","{","u",".","q","}","}","{","{","/","i","}","}">>,
     <<"{","{","#","i","}","}","{","{","l","e","n","g","t","h","}","}","{","{","/","i","}","}">>,
     <<"{","{","#","t","}","}","{","{","l","e","n","g","t","h","}","}","{","{","/","t","}","}">>,
     <<"{","{","#","i","}","}","{","{","0","}","}","{","{","/","i","}","}">>}

\* one placeholder outside any section
ValueTemplates ==
    {<<"{","{","n","}","}">>,
     <<"a","{","{","n","}","}","b">>,
     <<"{","{","u",".","c","}","}">>,
     <<"[","{","{","u",".","c","}","}","]">>,
     <<"{","{","u","}","}">>,
     <<"{","{","t","}","}">>,
     <<"{","{","q","}","}">>,
     <<"{","{","i","}","}">>}

\* two sections one after the other
PairTemplates ==
    {<<"{","{","#","t","}","}","x","{","{","/","t","}","}","m","{","{","#","t","}","}","y","{","{","/","t","}","}">>,
     <<"{","{","#","i","}","}","x","{","{","/","i","}","}","{","{","#","i","}","}","y","{","{","/","i","}","}">>,
     <<"a","{","{","#","t","}","}","[","{","{",".","}","}","]","{","{","/","t","}","}","-","{","{","#","t","}","}","<","{","{",".","}","}",">","{","{","/","t","}","}","b">>,
     <<"{","{","#","t","}","}","x","{","{","/","t","}","}","m","{","{","#","i","}","}","y","{","{","/","i","}","}">>,
     <<"{","{","#","n","}","}","x","{","{","/","n","}","}","m","{","{","#","n","}","}","y","{","{","/","n","}","}">>,
     <<"{","{","#","i","}","}","{","{","/","i","}","}","m","{","{","#","i","}","}","y","{","{","/","i","}","}">>}

\* a section whose body refers to the element itself
SelfTemplates ==
    {<<"{","{","#","t","}","}","{","{",".","}","}","{","{","/","t","}","}">>,
     <<"{","{","#","t","}","}","[","{","{",".","}","}","]","{","{","/","t","}","}">>,
     <<"{","{","#","i","}","}","{","{",".","}","}","{","{","/","i","}","}">>,
     <<"{","{","#","i","}","}","{","{","n","}","}","{","{",".","}","}","{","{","/","i","}","}">>}

CaseTemplates ==
    NestedTemplates \cup ScopeTemplates \cup ValueTemplates
      \cup PairTemplates \cup SelfTemplates

\* the arguments of the calls made in between two calls on the first pair
OtherCalls == {<<<<"{","{","n","}","}">>, Full>>}

\* number of calls of one behaviour
MaxCalls == 3

\* the local variables of main before any assignment
NoInputs ==
    [companyName |-> <<>>, companyNameSlug |-> <<>>, industry |-> <<>>,
     writeKey |-> <<>>, apiToken |-> <<>>, spaceId |-> <<>>,
     aiModel |-> <<>>, website |-> <<>>, notes |-> <<>>]

NoConfig ==
    [companyName |-> <<>>, industry |-> <<>>, writeKey |-> <<>>,
     apiToken |-> <<>>, spaceId |-> <<>>]

NoLocals ==
    [companyName |-> <<>>, companyNameSlug |-> <<>>, industry |-> <<>>,
     writeKey |-> <<>>, apiToken |-> <<>>, spaceId |-> <<>>,
     aiModel |-> <<>>, outputDir |-> <<>>, website |-> <<>>, notes |-> <<>>,
     inputs |-> NoInputs, config |-> NoConfig, demoPath |-> <<>>]

\* the engine on its own: main is not running
MainIdle ==
    /\ mpc = "idle"
    /\ locals = NoLocals
    /\ last = [question |-> "", answer |-> <<>>, error |-> ""]
    /\ asked = {}
    /\ accepted = <<>>
    /\ called = <<>>
    /\ console = {}
    /\ error = ""
    /\ demoDirExists = FALSE
    /\ existed = FALSE
    /\ templatesOnDisk = {}
    /\ written = <<>>

\* main on its own: replaceVariables is not being stepped through
EngineIdle ==
    /\ template = <<>>
    /\ data = Empty
    /\ given = [template |-> <<>>, data |-> Empty]
    /\ result = <<>>
    /\ pc = "idle"
    /\ passes = <<>>
    /\ calls = 0
    /\ othersCalled = FALSE
    /\ first = <<>>

(***************************************************************************)
(* Actions                                                                 *)
(***************************************************************************)
Init ==
    /\ template \in Templates
    /\ data \in Contexts
    /\ given = [template |-> template, data |-> data]
    /\ result = <<>>
    /\ pc = "call"
    /\ passes = <<>>
    /\ calls = 1
    /\ othersCalled = FALSE
    /\ first = <<>>
    /\ MainIdle

\* line 29: let result = template
Begin ==
    /\ pc = "call"
    /\ result' = InitialResult(template, result)
    /\ pc' = PassOrder[1]
    /\ UNCHANGED <<template, data, given, passes, calls, othersCalled, first>>
    /\ UNCHANGED mainVars

\* lines 32-54: result = result.replace(arrayPattern, ...)
ExpandSections ==
    /\ pc = "sections"
    /\ LET out == replaceSections(result, data)
       IN  /\ pc' = IF out.thrown THEN "raised" ELSE AfterPass
           /\ result' = IF out.thrown THEN result ELSE out.value
    /\ data' = dataAfterSections(result, data)
    /\ passes' = Append(passes, "sections")
    /\ first' = IF first = <<>> /\ pc' = "raised"
                  THEN <<given.template, given.data, Raised>> ELSE first
    /\ UNCHANGED <<template, given, calls, othersCalled>>
    /\ UNCHANGED mainVars

\* line 57: result = replaceSimpleVariables(result, data)
Substitute ==
    /\ pc = "simple"
    /\ LET out == replaceSimpleVariables(result, data)
       IN  /\ pc' = IF out.thrown THEN "raised" ELSE AfterPass
           /\ result' = IF out.thrown THEN result ELSE out.value
    /\ passes' = Append(passes, "simple")
    /\ first' = IF first = <<>> /\ pc' = "raised"
                  THEN <<given.template, given.data, Raised>> ELSE first
    /\ UNCHANGED <<template, data, given, calls, othersCalled>>
    /\ UNCHANGED mainVars

\* line 59: return result
Return ==
    /\ pc = "return"
    /\ pc' = "returned"
    /\ first' = IF first = <<>>
                  THEN <<given.template, given.data, Returned(result)>> ELSE first
    /\ UNCHANGED <<template, data, given, result, passes, calls, othersCalled>>
    /\ UNCHANGED mainVars

\* the caller calls replaceVariables again: on the first pair or on another
Call ==
    /\ pc \in {"returned", "raised"}
    /\ calls < MaxCalls
    /\ \E args \in {<<first[1], first[2]>>} \cup OtherCalls :
         /\ template' = args[1]
         /\ data' = args[2]
         /\ given' = [template |-> args[1], data |-> args[2]]
         /\ othersCalled' = (othersCalled \/ args # <<first[1], first[2]>>)
    /\ pc' = "call"
    /\ passes' = <<>>
    /\ calls' = calls + 1
    /\ UNCHANGED <<result, first>>
    /\ UNCHANGED mainVars

Next == Begin \/ ExpandSections \/ Substitute \/ Return

Spec == Init /\ [][Next]_vars

NextCalls == Next \/ Call

SpecCalls == Init /\ [][NextCalls]_vars

\* one call of replaceVariables on the templates and contexts of the cases
InitCases ==
    /\ template \in CaseTemplates
    /\ data \in CaseContexts
    /\ given = [template |-> template, data |-> data]
    /\ result = <<>>
    /\ pc = "call"
    /\ passes = <<>>
    /\ calls = 1
    /\ othersCalled = FALSE
    /\ first = <<>>
    /\ MainIdle

SpecCases == InitCases /\ [][Next]_vars

(***************************************************************************)
(* main: one action per question asked and per step after the questions    *)
(***************************************************************************)
InitMain ==
    /\ mpc = "companyName"
    /\ locals = NoLocals
    /\ last = [question |-> "", answer |-> <<>>, error |-> ""]
    /\ asked = {}
    /\ accepted = <<>>
    /\ called = <<>>
    /\ console = {}
    /\ error = ""
    /\ demoDirExists \in BOOLEAN
    /\ existed = demoDirExists
    /\ templatesOnDisk \in SUBSET TemplateFiles
    /\ written = <<>>
    /\ EngineIdle

\* every loop exits whatever the validator says
afterAnswerAlways(valid, here, next) == next

\* while (true) { ...; if (validation.valid) break; ... }
afterAnswer(valid, here, next) == IF valid THEN next ELSE here

\* what one pass through a validated prompt loop does to the bookkeeping
Asked(question, field, answer, validation, next) ==
    /\ mpc' = afterAnswer(validation.valid, mpc, next)
    /\ last' = [question |-> question, answer |-> answer,
                error |-> validation.error]
    /\ asked' = asked \cup {question}
    /\ accepted' = IF validation.valid THEN Append(accepted, field)
                   ELSE accepted
    /\ UNCHANGED <<console, called, error, demoDirExists, existed, templatesOnDisk,
                   written>>
    /\ UNCHANGED engineVars

\* an optional question: the answer is taken as it is
AskedOptional(question, answer, next) ==
    /\ mpc' = next
    /\ last' = [question |-> question, answer |-> answer, error |-> ""]
    /\ asked' = asked \cup {question}
    /\ UNCHANGED <<accepted, console, called, error, demoDirExists, existed,
                   templatesOnDisk, written>>
    /\ UNCHANGED engineVars

\* lines 47-55
AskCompanyName ==
    /\ mpc = "companyName"
    /\ \E answer \in CompanyNameAnswers :
         LET validation == validateCompanyName(answer)
         IN  /\ locals' = [locals EXCEPT
                             !.companyName = answer,
                             !.companyNameSlug =
                                IF validation.valid THEN validation.sanitized
                                ELSE @]
             /\ Asked("Company name: ", "companyName", answer, validation,
                      "industry")

\* lines 59-64
AskIndustry ==
    /\ mpc = "industry"
    /\ \E answer \in IndustryAnswers :
         /\ locals' = [locals EXCEPT !.industry = answer]
         /\ Asked("Industry (e.g., Travel, SaaS, E-Commerce): ", "industry",
                  answer, validateIndustry(answer), "writeKey")

\* lines 70-75
AskWriteKey ==
    /\ mpc = "writeKey"
    /\ \E answer \in WriteKeyAnswers :
         /\ locals' = [locals EXCEPT !.writeKey = answer]
         /\ Asked("Segment Write Key: ", "writeKey", answer,
                  validateWriteKey(answer), "apiToken")

\* lines 79-84
AskApiToken ==
    /\ mpc = "apiToken"
    /\ \E answer \in ApiTokenAnswers :
         /\ locals' = [locals EXCEPT !.apiToken = answer]
         /\ Asked("Profiles API Token: ", "apiToken", answer,
                  validateApiToken(answer), "spaceId")

\* lines 88-93
AskSpaceId ==
    /\ mpc = "spaceId"
    /\ \E answer \in SpaceIdAnswers :
         /\ locals' = [locals EXCEPT !.spaceId = answer]
         /\ Asked("Space ID: ", "spaceId", answer, validateSpaceId(answer),
                  "aiModel")

\* line 98
AskAiModel ==
    /\ mpc = "aiModel"
    /\ \E answer \in AiModelAnswers :
         /\ locals' = [locals EXCEPT
                         !.aiModel = IF answer = <<>> THEN SONNET ELSE answer]
         /\ AskedOptional("AI model (opus/sonnet) [sonnet]: ", answer,
                          "outputDir")

\* line 101
AskOutputDir ==
    /\ mpc = "outputDir"
    /\ \E answer \in OutputDirAnswers :
         /\ locals' = [locals EXCEPT
                         !.outputDir = IF answer = <<>> THEN DOT ELSE answer]
         /\ AskedOptional("Output directory (default: current directory): ",
                          answer, "website")

\* line 104
AskWebsite ==
    /\ mpc = "website"
    /\ \E answer \in WebsiteAnswers :
         /\ locals' = [locals EXCEPT !.website = answer]
         /\ AskedOptional("Company website (optional): ", answer, "notes")

\* lines 105-122: the last question, rl.close() and the inputs object
AskNotes ==
    /\ mpc = "notes"
    /\ \E answer \in NotesAnswers :
         /\ locals' = [locals EXCEPT
                         !.notes = answer,
                         !.inputs =
                            [companyName |-> locals.companyName,
                             companyNameSlug |-> locals.companyNameSlug,
                             industry |-> locals.industry,
                             writeKey |-> locals.writeKey,
                             apiToken |-> locals.apiToken,
                             spaceId |-> locals.spaceId,
                             aiModel |-> toLowerCase(locals.aiModel),
                             website |-> locals.website,
                             notes |-> answer]]
         /\ AskedOptional("Additional notes/context (optional): ", answer,
                          "generateDemoConfig")

\* the catch of main: console.error('\nError:', ...); process.exit(1)
Catch(message) ==
    /\ mpc' = "exited"
    /\ error' = message
    /\ console' = console \cup {"Error:"}

\* the configuration generateDemoConfig returns, as far as main and the
\* templates read the user's answers from it
generateDemoConfig(inputs) ==
    [companyName |-> inputs.companyName,
     industry |-> inputs.industry,
     writeKey |-> inputs.writeKey,
     apiToken |-> inputs.apiToken,
     spaceId |-> inputs.spaceId]

\* line 125: const config = await generateDemoConfig(inputs); the call of
\* the model behind it may fail
GenerateDemoConfig ==
    /\ mpc = "generateDemoConfig"
    /\ called' = Append(called, "generateDemoConfig")
    /\ \E rejected \in BOOLEAN :
         IF rejected
           THEN /\ Catch("generateDemoConfig")
                /\ UNCHANGED locals
           ELSE /\ locals' = [locals EXCEPT
                                !.config = generateDemoConfig(locals.inputs)]
                /\ mpc' = "createDirectory"
                /\ UNCHANGED <<error, console>>
    /\ UNCHANGED <<last, asked, accepted, demoDirExists, existed,
                   templatesOnDisk, written>>
    /\ UNCHANGED engineVars

\* lines 128-135
CreateDirectory ==
    /\ mpc = "createDirectory"
    /\ locals' = [locals EXCEPT
                    !.demoPath =
                       pathJoin(locals.outputDir, locals.companyNameSlug \o DEMO)]
    /\ IF demoDirExists
         THEN /\ console' = console \cup {"Warning: Directory already exists. Overwriting..."}
              /\ UNCHANGED demoDirExists
         ELSE /\ demoDirExists' = TRUE
              /\ UNCHANGED console
    /\ mpc' = "generateAllFiles"
    /\ UNCHANGED <<last, asked, accepted, called, error, existed,
                   templatesOnDisk, written>>
    /\ UNCHANGED engineVars

\* lines 138, 116-128: generateAllFiles(config, demoPath) up to the loop
GenerateAllFiles ==
    /\ mpc = "generateAllFiles"
    /\ called' = Append(called, "generateAllFiles")
    /\ console' = console \cup {"Generating demo files in:"}
    /\ mpc' = "generateFile"
    /\ UNCHANGED <<locals, last, asked, accepted, error, demoDirExists,
                   existed, templatesOnDisk, written>>
    /\ UNCHANGED engineVars

\* lines 9-14: loadTemplate raises when the file is not there
loadTemplate(templatePath) ==
    IF templatePath \notin templatesOnDisk
      THEN [thrown |-> TRUE, message |-> "Template not found"]
      ELSE [thrown |-> FALSE, message |-> ""]

\* lines 131-135, 97-109: one turn of files.forEach, that is one call of
\* generateFile; replaceVariables may raise a TypeError on the template
GenerateFile ==
    /\ mpc = "generateFile"
    /\ LET k == Len(written) + 1
           loaded == loadTemplate(files[k].template)
           outputPath == pathJoin(locals.demoPath, files[k].output)
       IN  IF loaded.thrown
             THEN /\ Catch(loaded.message)
                  /\ UNCHANGED <<written, demoDirExists>>
             ELSE \E raises \in BOOLEAN :
                    IF raises
                      THEN /\ Catch("TypeError")
                           /\ UNCHANGED <<written, demoDirExists>>
                      ELSE /\ written' = Append(written, outputPath)
                           /\ demoDirExists' = TRUE
                           /\ console' = console \cup {"Generated:"}
                           /\ mpc' = IF k = Len(files) THEN "allGenerated"
                                     ELSE "generateFile"
                           /\ UNCHANGED error
    /\ UNCHANGED <<locals, last, asked, accepted, called, existed,
                   templatesOnDisk>>
    /\ UNCHANGED engineVars

\* line 137 of the template processor: the loop has ended
AllGenerated ==
    /\ mpc = "allGenerated"
    /\ console' = console \cup {"All files generated successfully!"}
    /\ mpc' = "install"
    /\ UNCHANGED <<locals, last, asked, accepted, called, error,
                   demoDirExists, existed, templatesOnDisk, written>>
    /\ UNCHANGED engineVars

\* lines 141-166: npm install, which may fail, and the closing messages
InstallDependencies ==
    /\ mpc = "install"
    /\ called' = Append(called, "npm install")
    /\ \E failed \in BOOLEAN :
         console' = console
                      \cup (IF failed THEN {"Error installing dependencies:"}
                            ELSE {"Dependencies installed successfully!"})
                      \cup {"=== Demo Generated Successfully! ==="}
    /\ mpc' = "done"
    /\ UNCHANGED <<locals, last, asked, accepted, error, demoDirExists,
                   existed, templatesOnDisk, written>>
    /\ UNCHANGED engineVars

NextMain ==
    \/ AskCompanyName \/ AskIndustry \/ AskWriteKey \/ AskApiToken
    \/ AskSpaceId \/ AskAiModel \/ AskOutputDir \/ AskWebsite \/ AskNotes
    \/ GenerateDemoConfig \/ CreateDirectory \/ GenerateAllFiles
    \/ GenerateFile \/ AllGenerated \/ InstallDependencies

SpecMain == InitMain /\ [][NextMain]_vars

(***************************************************************************)
(* The grammar of the markers, stated without the scanning operators       *)
(***************************************************************************)
Chars(s) == {s[k] : k \in 1..Len(s)}

\* s[i..j] is a placeholder or self-reference marker: {{ + [\w.]+ + }}
PlaceholderAt(s, i, j) ==
    /\ j - i >= 4
    /\ s[i] = "{" /\ s[i + 1] = "{" /\ s[j - 1] = "}" /\ s[j] = "}"
    /\ \A k \in (i + 2)..(j - 2) : PathChar(s[k])

\* s[i..j] is a section start or end marker: {{# or {{/ + \w+ + }}
SectionMarkerAt(s, i, j) ==
    /\ j - i >= 5
    /\ s[i] = "{" /\ s[i + 1] = "{" /\ s[i + 2] \in {"#", "/"}
    /\ s[j - 1] = "}" /\ s[j] = "}"
    /\ \A k \in (i + 3)..(j - 2) : WordChar(s[k])

\* a dot-separated sequence of one or more identifier segments
IdentifierPath(path) ==
    \A k \in 1..Len(Split(path, 1, <<>>)) : Len(Split(path, 1, <<>>)[k]) > 0

\* the walk along keys from v, through own keys of mappings only, meets a
\* mapping that lacks the key or a string, number or boolean
RECURSIVE NamesNoKey(_, _, _)
NamesNoKey(v, keys, k) ==
    /\ k <= Len(keys)
    /\ \/ v.t \in {"string", "number", "boolean"}
       \/ /\ v.t = "object"
          /\ \/ keys[k] \notin OwnKeys(v.v)
             \/ NamesNoKey(OwnValue(v.v, keys[k]), keys, k + 1)

(***************************************************************************)
(* C1: replaceVariables never raises: every call returns a string.         *)
(***************************************************************************)
NeverRaises == pc # "raised"

(***************************************************************************)
(* C2: a placeholder {{path}} outside any section whose path names no key  *)
(* of the data is still in the output, as written, at its position (here:  *)
(* between text that holds no brace).                                      *)
(***************************************************************************)
UnresolvedPlaceholderKept ==
    pc = "returned" =>
      \A i \in 1..Len(template) : \A j \in i..Len(template) :
        ( /\ PlaceholderAt(template, i, j)
          /\ "{" \notin Chars(SubSeq(template, 1, i - 1))
          /\ "{" \notin Chars(SubSeq(template, j + 1, Len(template)))
          /\ IdentifierPath(SubSeq(template, i + 2, j - 2))
          /\ NamesNoKey(data, Split(SubSeq(template, i + 2, j - 2), 1, <<>>), 1) )
        => result = template

(***************************************************************************)
(* Templates that are one section and nothing else: {{#N}}B{{/N}} with a   *)
(* name N of n characters and a body B that holds no end marker of N.      *)
(***************************************************************************)
NameOf(s, n) == SubSeq(s, 4, 3 + n)

BodyOf(s, n) == SubSeq(s, 6 + n, Len(s) - (5 + n))

WholeSection(s, n) ==
    /\ n >= 1
    /\ Len(s) >= 2 * n + 10
    /\ \A k \in 1..n : WordChar(NameOf(s, n)[k])
    /\ s = StartMarker(NameOf(s, n)) \o BodyOf(s, n) \o EndMarker(NameOf(s, n))
    /\ \A k \in 1..Len(BodyOf(s, n)) :
         ~StartsWith(BodyOf(s, n) \o EndMarker(NameOf(s, n)), k, EndMarker(NameOf(s, n)))

\* the value of the root key name, Undefined when the data has no such key
Root(d, name) ==
    IF name \in OwnKeys(d.v) THEN OwnValue(d.v, name) ELSE Undefined

IsSequenceOf(v, types) ==
    v.t = "array" /\ \A k \in 1..Len(v.v) : v.v[k].t \in types

\* the data without its root key k
RECURSIVE RemoveKey(_, _)
RemoveKey(props, k) ==
    IF props = <<>> THEN <<>>
    ELSE (IF Head(props)[1] = k THEN <<>> ELSE <<Head(props)>>)
         \o RemoveKey(Tail(props), k)

\* B[i..j] is a bare single-segment placeholder {{k}}
BareAt(B, i, j) ==
    PlaceholderAt(B, i, j) /\ \A k \in (i + 2)..(j - 2) : WordChar(B[k])

\* every placeholder of B is bare or is the self-reference
OnlyBare(B) ==
    \A i \in 1..Len(B) : \A j \in i..Len(B) :
      PlaceholderAt(B, i, j) => BareAt(B, i, j) \/ SubSeq(B, i, j) = SELF

(***************************************************************************)
(* C3: in a section over a sequence of mappings a bare placeholder {{k}}   *)
(* of the body is resolved against the current element only: the output    *)
(* does not depend on the root's value for k, so it is the output of the   *)
(* same call on the data without the root key k.                           *)
(***************************************************************************)
ElementScopeOnly ==
    pc = "returned" =>
      \A n \in 1..Len(template) :
        ( /\ WholeSection(template, n)
          /\ IsSequenceOf(Root(data, NameOf(template, n)), {"object"})
          /\ OnlyBare(BodyOf(template, n)) )
        => \A i \in 1..Len(BodyOf(template, n)) : \A j \in i..Len(BodyOf(template, n)) :
             ( /\ BareAt(BodyOf(template, n), i, j)
               /\ SubSeq(BodyOf(template, n), i + 2, j - 2) # NameOf(template, n) )
             => Returned(result) =
                  replaceVariables(
                    template,
                    Obj(RemoveKey(data.v, SubSeq(BodyOf(template, n), i + 2, j - 2))))

(***************************************************************************)
(* C4: the expansion of a section over n primitive values is n copies of   *)
(* the body, in order and with no separator, each {{.}} replaced by the    *)
(* string form of the element, whatever characters it holds.               *)
(***************************************************************************)
\* B with every {{.}} replaced by the characters of str, as they are
RECURSIVE LiteralSelf(_, _)
LiteralSelf(B, str) ==
    IF B = <<>> THEN <<>>
    ELSE IF StartsWith(B, 1, SELF)
      THEN str \o LiteralSelf(SubSeq(B, 6, Len(B)), str)
    ELSE <<Head(B)>> \o LiteralSelf(Tail(B), str)

RECURSIVE Copies(_, _, _)
Copies(B, elems, k) ==
    IF k > Len(elems) THEN <<>>
    ELSE LiteralSelf(B, JSToString(elems[k])) \o Copies(B, elems, k + 1)

PrimitiveSectionExpansion ==
    (pc = "simple" /\ passes = <<"sections">>) =>
      \A n \in 1..Len(template) :
        ( /\ WholeSection(template, n)
          /\ IsSequenceOf(Root(data, NameOf(template, n)),
                          {"string", "number", "boolean"}) )
        => result = Copies(BodyOf(template, n),
                           Root(data, NameOf(template, n)).v, 1)

(***************************************************************************)
(* C6: getNestedValue yields undefined whenever an intermediate segment of *)
(* the path is absent or resolves to a value that is not a mapping.        *)
(* Checked on the paths of the template's placeholders; a walk that raises *)
(* is counted under C1, not here.                                          *)
(***************************************************************************)
\* the value m own-key steps along keys, Undefined once a step leaves the
\* mappings or meets a missing key
RECURSIVE OwnWalk(_, _, _, _)
OwnWalk(v, keys, k, m) ==
    IF k > m THEN v
    ELSE IF v.t = "object" /\ keys[k] \in OwnKeys(v.v)
      THEN OwnWalk(OwnValue(v.v, keys[k]), keys, k + 1, m)
    ELSE Undefined

IntermediateFails(d, keys) ==
    \E m \in 1..(Len(keys) - 1) : OwnWalk(d, keys, 1, m).t # "object"

IntermediateUndefined ==
    pc = "returned" =>
    \A i \in 1..Len(template) : \A j \in i..Len(template) :
      ( /\ PlaceholderAt(template, i, j)
        /\ IdentifierPath(SubSeq(template, i + 2, j - 2))
        /\ IntermediateFails(data, Split(SubSeq(template, i + 2, j - 2), 1, <<>>)) )
      => LET got == getNestedValue(data, SubSeq(template, i + 2, j - 2))
         IN  got.thrown \/ got.value = Undefined

(***************************************************************************)
(* C5: a matched section whose name resolves to anything but a sequence    *)
(* is replaced, markers and body, by the empty string whatever its body    *)
(* holds, and the text before and after it is kept: pass 1 leaves the two  *)
(* texts joined, and text without braces reaches the output as it is.      *)
(***************************************************************************)
\* the positions at which a section start marker opens
Openings(s) == {i \in 1..Len(s) : StartsWith(s, i, <<"{","{","#">>)}

\* the lengths n for which s[i..] is a start marker with a name of n characters
NameLengths(s, i) ==
    {n \in 1..(Len(s) - i) :
       /\ \A k \in (i + 3)..(i + 2 + n) : k <= Len(s) /\ WordChar(s[k])
       /\ StartsWith(s, i + 3 + n, CLOSE)}

\* the position at which the first end marker of that name starts, if any
Stops(s, i, n) ==
    {j \in (i + 5 + n)..Len(s) :
       /\ StartsWith(s, j, EndMarker(SubSeq(s, i + 3, i + 2 + n)))
       /\ \A k \in (i + 5 + n)..(j - 1) :
            ~StartsWith(s, k, EndMarker(SubSeq(s, i + 3, i + 2 + n)))}

TextBefore(s, i) == SubSeq(s, 1, i - 1)

TextAfter(s, n, j) == SubSeq(s, j + n + 5, Len(s))

NoSectionStart(s) == \A k \in 1..Len(s) : ~StartsWith(s, k, <<"{","{","#">>)

NotASequence(v) ==
    v.t \in {"undefined", "string", "number", "boolean", "object"}

NonSequenceSectionDropped ==
    \A i \in Openings(template) : \A n \in NameLengths(template, i) :
    \A j \in Stops(template, i, n) :
      ( /\ NoSectionStart(TextBefore(template, i))
        /\ NoSectionStart(TextAfter(template, n, j))
        /\ NotASequence(Root(data, SubSeq(template, i + 3, i + 2 + n))) )
      => /\ (pc = "simple" /\ passes = <<"sections">>)
              => result = TextBefore(template, i) \o TextAfter(template, n, j)
         /\ "{" \notin Chars(TextBefore(template, i) \o TextAfter(template, n, j))
              => /\ pc # "raised"
                 /\ pc = "returned"
                      => result = TextBefore(template, i) \o TextAfter(template, n, j)

\* a section over a mapping, with a placeholder in its body and text on
\* both sides, has been rendered
NonSequenceSectionDroppedWitness ==
    /\ pc = "returned"
    /\ \E i \in Openings(template) \ {1} : \E n \in NameLengths(template, i) :
       \E j \in Stops(template, i, n) :
         /\ Root(data, SubSeq(template, i + 3, i + 2 + n)).t = "object"
         /\ \E k \in (i + 5 + n)..(j - 1) : SimpleMatches(template, k)
         /\ TextAfter(template, n, j) # <<>>
         /\ "{" \notin Chars(TextBefore(template, i) \o TextAfter(template, n, j))
         /\ result = TextBefore(template, i) \o TextAfter(template, n, j)

(***************************************************************************)
(* C7: identity law: a template that holds no placeholder marker, no       *)
(* section marker and no self-reference marker is returned unchanged, for  *)
(* every data context.                                                     *)
(***************************************************************************)
NoMarker(s) ==
    \A i \in 1..Len(s) : \A j \in i..Len(s) :
      ~PlaceholderAt(s, i, j) /\ ~SectionMarkerAt(s, i, j)

IdentityLaw ==
    NoMarker(template) =>
      /\ pc # "raised"
      /\ pc = "returned" => result = template

\* a template with braces but no marker has been rendered with data that
\* carries the key its text spells
IdentityLawWitness ==
    /\ pc = "returned"
    /\ NoMarker(template)
    /\ "{" \in Chars(template)
    /\ <<"n">> \in OwnKeys(data.v)
    /\ result = template

(***************************************************************************)
(* C8: within one call, section expansion (pass 1) has run before any      *)
(* placeholder is resolved against the root data (pass 2), and a call that *)
(* returns has run both, in that order.                                    *)
(***************************************************************************)
SectionsBeforeSimple ==
    /\ \A k \in 1..Len(passes) :
         passes[k] = "simple" => \E m \in 1..(k - 1) : passes[m] = "sections"
    /\ pc = "simple" => passes = <<"sections">>
    /\ pc = "returned" => passes = <<"sections", "simple">>

\* a section over a non-empty sequence of mappings with a bare placeholder
\* in its body has gone through both passes
SectionsBeforeSimpleWitness ==
    /\ pc = "returned"
    /\ passes = <<"sections", "simple">>
    /\ \E n \in 1..Len(template) :
         /\ WholeSection(template, n)
         /\ IsSequenceOf(Root(data, NameOf(template, n)), {"object"})
         /\ Len(Root(data, NameOf(template, n)).v) > 0
         /\ \E i \in 1..Len(BodyOf(template, n)) : \E j \in i..Len(BodyOf(template, n)) :
              BareAt(BodyOf(template, n), i, j)

(***************************************************************************)
(* C9: determinism: every call on the pair of the first call ends as the   *)
(* first call did, however many calls were made since and whether or not   *)
(* calls on other pairs were made in between.                              *)
(***************************************************************************)
Deterministic ==
    ( /\ pc \in {"returned", "raised"}
      /\ first # <<>>
      /\ given.template = first[1]
      /\ given.data = first[2] )
    => Outcome = first[3]

\* the first pair was rendered again after a call on another pair, and the
\* rendering changed the template
DeterministicWitness ==
    /\ pc = "returned"
    /\ calls > 2
    /\ othersCalled
    /\ given.template = first[1]
    /\ given.data = first[2]
    /\ result # template
    /\ first[3] = Returned(result)

(***************************************************************************)
(* C10: replaceVariables leaves its inputs unchanged: during and after the *)
(* call the template and the data equal what the caller passed.            *)
(***************************************************************************)
InputsUnchanged ==
    /\ template = given.template
    /\ data = given.data

\* a call that iterated over a non-empty sequence has returned
InputsUnchangedWitness ==
    /\ pc = "returned"
    /\ \E n \in 1..Len(template) :
         /\ WholeSection(template, n)
         /\ Root(data, NameOf(template, n)).t = "array"
         /\ Len(Root(data, NameOf(template, n)).v) > 0
    /\ result # template
    /\ data = given.data

(***************************************************************************)
(* The workflow of main                                                    *)
(***************************************************************************)
\* the questions of the input-gathering phase
GatheringQuestions ==
    {"Company name: ",
     "Industry (e.g., Travel, SaaS, E-Commerce): ",
     "Segment Write Key: ",
     "Profiles API Token: ",
     "Space ID: ",
     "AI model (opus/sonnet) [sonnet]: ",
     "Output directory (default: current directory): ",
     "Company website (optional): ",
     "Additional notes/context (optional): "}

\* main has asked its last question and built inputs
InputsBuilt ==
    mpc \in {"generateDemoConfig", "createDirectory", "generateAllFiles",
             "generateFile", "allGenerated", "install", "done", "exited"}

OnlyLettersAndDigits(s) ==
    \A k \in 1..Len(s) : s[k] \in Lower \cup Upper \cup Digits

\* C11: once main has left the write-key prompt loop, the write key it
\* holds, and the one it puts into inputs and so hands to content
\* generation and the templates, consists solely of letters and digits
WriteKeyAlphanumeric ==
    /\ "writeKey" \in Chars(accepted) => OnlyLettersAndDigits(locals.writeKey)
    /\ InputsBuilt => OnlyLettersAndDigits(locals.inputs.writeKey)

\* C12: no file is written into a demo directory that was already there
\* unless the user has been asked, after the inputs were gathered, whether
\* to overwrite it
OverwriteConfirmed ==
    (existed /\ written # <<>>) => last.question \notin GatheringQuestions

ContainsDotDot(s) ==
    \E k \in 1..(Len(s) - 1) : s[k] = "." /\ s[k + 1] = "."

\* the path without its last segment
Parent(path) ==
    LET slashes == {k \in 1..Len(path) : path[k] = "/"}
    IN  IF slashes = {} THEN <<>>
        ELSE SubSeq(path, 1, (CHOOSE k \in slashes : \A j \in slashes : j <= k) - 1)

\* C13: the location under which main creates the demo directory and
\* writes the generated files carries no ".." sequence from the user's
\* answer to the output directory question
OutputLocationSanitized ==
    /\ locals.demoPath # <<>> => ~ContainsDotDot(Parent(locals.demoPath))
    /\ \A k \in 1..Len(written) : ~ContainsDotDot(Parent(written[k]))

(***************************************************************************)
(* C14: sections are single-level.  A section of another name written      *)
(* inside the body of a section over a sequence is not expanded: its       *)
(* markers and its text are copied, as written, once per element.          *)
(***************************************************************************)
RECURSIVE Repeat(_, _)
Repeat(text, n) == IF n = 0 THEN <<>> ELSE text \o Repeat(text, n - 1)

\* the template is {{#N}}B{{/N}}, N names a sequence, and B is itself
\* {{#M}}text{{/M}} with another name M and a text without braces
NestedCase(n, m) ==
    /\ WholeSection(template, n)
    /\ Root(data, NameOf(template, n)).t = "array"
    /\ WholeSection(BodyOf(template, n), m)
    /\ NameOf(BodyOf(template, n), m) # NameOf(template, n)
    /\ "{" \notin Chars(BodyOf(BodyOf(template, n), m))

SingleLevelSections ==
    pc = "returned" =>
      \A n \in 1..Len(template) : \A m \in 1..Len(template) :
        NestedCase(n, m)
        => result = Repeat(BodyOf(template, n),
                           Len(Root(data, NameOf(template, n)).v))

\* a returned call on a section over two or more elements whose body is a
\* section over a non-empty sequence
SingleLevelSectionsWitness ==
    /\ pc = "returned"
    /\ \E n \in 1..Len(template) : \E m \in 1..Len(template) :
         /\ NestedCase(n, m)
         /\ Len(Root(data, NameOf(template, n)).v) >= 2
         /\ IsSequenceOf(Root(data, NameOf(BodyOf(template, n), m)),
                         {"string", "number", "boolean", "object", "array"})
         /\ Len(Root(data, NameOf(BodyOf(template, n), m)).v) >= 1
         /\ Len(BodyOf(BodyOf(template, n), m)) >= 1
         /\ Len(result) = 2 * Len(BodyOf(template, n))

(***************************************************************************)
(* C15: inside a section body only a bare single-segment placeholder is    *)
(* resolved against the current element, and only when the element is a    *)
(* mapping.  A dotted placeholder of the body, and any placeholder of a    *)
(* body expanded over sequences, strings, numbers or booleans, is resolved *)
(* against the root: every copy of it gives what the same placeholder      *)
(* gives outside the section.                                              *)
(***************************************************************************)
\* B is one placeholder {{path}} and nothing else
OnePlaceholder(B) ==
    /\ PlaceholderAt(B, 1, Len(B))
    /\ IdentifierPath(SubSeq(B, 3, Len(B) - 2))

\* what the placeholder B gives under the root d
RootText(B, d) == replaceSimpleVariables(B, d).value

RootScopeCase(n) ==
    /\ WholeSection(template, n)
    /\ Root(data, NameOf(template, n)).t = "array"
    /\ OnePlaceholder(BodyOf(template, n))
    /\ \/ "." \in Chars(BodyOf(template, n))
       \/ IsSequenceOf(Root(data, NameOf(template, n)),
                       {"array", "string", "number", "boolean"})

ElementResolvesBareOnly ==
    pc = "returned" =>
      \A n \in 1..Len(template) :
        RootScopeCase(n)
        => result = Repeat(RootText(BodyOf(template, n), data),
                           Len(Root(data, NameOf(template, n)).v))

(***************************************************************************)
(* C16: a placeholder whose path resolves to a defined falsy value, the    *)
(* empty string, 0 or false, is replaced by the string form of the value   *)
(* ("", "0", "false"); the marker text does not stay.                      *)
(***************************************************************************)
IsFalsy(v) ==
    \/ v.t = "string" /\ v.v = <<>>
    \/ v.t = "number" /\ v.v = 0
    \/ v.t = "boolean" /\ v.v = FALSE

FalsyText(v) ==
    IF v.t = "number" THEN <<"0">>
    ELSE IF v.t = "boolean" THEN <<"f","a","l","s","e">>
    ELSE <<>>

\* the value the keys of the placeholder template[i..j] lead to
ValueAt(i, j) ==
    LET keys == Split(SubSeq(template, i + 2, j - 2), 1, <<>>)
    IN  OwnWalk(data, keys, 1, Len(keys))

\* template[i..j] is the only marker of the template and its path leads,
\* through keys of the data, to a falsy value
FalsyCase(i, j) ==
    /\ PlaceholderAt(template, i, j)
    /\ "{" \notin Chars(SubSeq(template, 1, i - 1))
    /\ "{" \notin Chars(SubSeq(template, j + 1, Len(template)))
    /\ IdentifierPath(SubSeq(template, i + 2, j - 2))
    /\ IsFalsy(ValueAt(i, j))

FalsyValuesReplaced ==
    pc = "returned" =>
      \A i \in 1..Len(template) : \A j \in i..Len(template) :
        FalsyCase(i, j)
        => result = SubSeq(template, 1, i - 1) \o FalsyText(ValueAt(i, j))
                      \o SubSeq(template, j + 1, Len(template))

\* a returned call on a template around a placeholder for the empty string
FalsyValuesReplacedWitness ==
    /\ pc = "returned"
    /\ \E i \in 2..Len(template) : \E j \in i..(Len(template) - 1) :
         /\ FalsyCase(i, j)
         /\ ValueAt(i, j).t = "string"
         /\ Len(result) = Len(template) - (j - i + 1)

(***************************************************************************)
(* C17: a start marker is paired with the nearest following end marker of  *)
(* the same name.  Two sections of one name that do not overlap are each   *)
(* expanded on their own, and the text between them is kept once.          *)
(***************************************************************************)
\* template[i1..] and template[i2..] open two sections of one name, of n
\* characters, that end at the end markers at j1 and j2; the second opens
\* after the first has ended, and no other section opens anywhere
PairCase(i1, n, j1, i2, j2) ==
    /\ n \in NameLengths(template, i1) \cap NameLengths(template, i2)
    /\ SubSeq(template, i1 + 3, i1 + 2 + n) = SubSeq(template, i2 + 3, i2 + 2 + n)
    /\ j1 \in Stops(template, i1, n)
    /\ j1 + n + 5 <= i2
    /\ j2 \in Stops(template, i2, n)
    /\ Openings(template) = {i1, i2}

\* the expansion of the body template[i + 5 + n .. j - 1] of a section
ExpansionOf(i, n, j) ==
    expandSection(data, SubSeq(template, i + 3, i + 2 + n),
                  SubSeq(template, i + 5 + n, j - 1))

SameNameSectionsApart ==
    (pc = "simple" /\ passes = <<"sections">>) =>
      \A i1 \in Openings(template) : \A i2 \in Openings(template) :
      \A n \in NameLengths(template, i1) :
      \A j1 \in Stops(template, i1, n) : \A j2 \in (i2 + 1)..Len(template) :
        PairCase(i1, n, j1, i2, j2)
        => result = TextBefore(template, i1)
                      \o ExpansionOf(i1, n, j1).value
                      \o SubSeq(template, j1 + n + 5, i2 - 1)
                      \o ExpansionOf(i2, n, j2).value
                      \o TextAfter(template, n, j2)

\* pass 1 has run over two sections of one name, over a sequence that is
\* not empty, with different bodies and text between them
SameNameSectionsApartWitness ==
    /\ pc = "simple" /\ passes = <<"sections">>
    /\ \E i1 \in Openings(template) : \E i2 \in Openings(template) :
       \E n \in NameLengths(template, i1) :
       \E j1 \in Stops(template, i1, n) : \E j2 \in (i2 + 1)..Len(template) :
         /\ PairCase(i1, n, j1, i2, j2)
         /\ Root(data, SubSeq(template, i1 + 3, i1 + 2 + n)).t = "array"
         /\ Len(Root(data, SubSeq(template, i1 + 3, i1 + 2 + n)).v) >= 2
         /\ j1 + n + 5 < i2
         /\ SubSeq(template, i1 + 5 + n, j1 - 1) # SubSeq(template, i2 + 5 + n, j2 - 1)
         /\ ExpansionOf(i1, n, j1).value # <<>>
         /\ ExpansionOf(i2, n, j2).value # <<>>
         /\ result = TextBefore(template, i1)
                       \o ExpansionOf(i1, n, j1).value
                       \o SubSeq(template, j1 + n + 5, i2 - 1)
                       \o ExpansionOf(i2, n, j2).value
                       \o TextAfter(template, n, j2)

(***************************************************************************)
(* C18: text inserted from the data is never read as template syntax.  A   *)
(* string element that holds the text of a placeholder, inserted for       *)
(* {{.}} by the section pass, is in the output as it is: the second pass   *)
(* does not resolve it.                                                    *)
(***************************************************************************)
\* the only markers of B are self-references
OnlySelf(B) ==
    \A i \in 1..Len(B) : \A j \in i..Len(B) :
      (PlaceholderAt(B, i, j) \/ SectionMarkerAt(B, i, j))
      => SubSeq(B, i, j) = SELF

\* the template is {{#N}}B{{/N}}, B refers to nothing but the element, and
\* N names a sequence of strings that hold no "$"
DataTextCase(n) ==
    /\ WholeSection(template, n)
    /\ OnlySelf(BodyOf(template, n))
    /\ IsSequenceOf(Root(data, NameOf(template, n)), {"string"})
    /\ \A k \in 1..Len(Root(data, NameOf(template, n)).v) :
         "$" \notin Chars(Root(data, NameOf(template, n)).v[k].v)

DataTextVerbatim ==
    pc = "returned" =>
      \A n \in 1..Len(template) :
        DataTextCase(n)
        => result = Copies(BodyOf(template, n),
                           Root(data, NameOf(template, n)).v, 1)

(***************************************************************************)
(* C19: validation gates generation.  generateDemoConfig and               *)
(* generateAllFiles are called only after the company name, industry,      *)
(* write key, API token and space ID questions have each got an answer     *)
(* accepted by its validator, in that order; a rejected answer leaves main *)
(* at the same question.                                                   *)
(***************************************************************************)
Validated == <<"companyName", "industry", "writeKey", "apiToken", "spaceId">>

\* the step of main at which a validated question is asked
StepOf(question) ==
    CASE question = "Company name: " -> "companyName"
      [] question = "Industry (e.g., Travel, SaaS, E-Commerce): " -> "industry"
      [] question = "Segment Write Key: " -> "writeKey"
      [] question = "Profiles API Token: " -> "apiToken"
      [] question = "Space ID: " -> "spaceId"
      [] OTHER -> "none"

ValidationGatesGeneration ==
    /\ Len(accepted) <= Len(Validated)
    /\ \A k \in 1..Len(accepted) : accepted[k] = Validated[k]
    /\ Len(accepted) < Len(Validated) => mpc = Validated[Len(accepted) + 1]
    /\ called # <<>> =>
         /\ accepted = Validated
         /\ validateCompanyName(locals.companyName).valid
         /\ validateIndustry(locals.industry).valid
         /\ validateWriteKey(locals.writeKey).valid
         /\ validateApiToken(locals.apiToken).valid
         /\ validateSpaceId(locals.spaceId).valid
    /\ last.error # "" => mpc = StepOf(last.question)

\* main has called both generators, after five accepted answers
ValidationGatesGenerationWitness ==
    /\ called = <<"generateDemoConfig", "generateAllFiles">>
    /\ accepted = Validated
    /\ validateSpaceId(locals.spaceId).valid
    /\ written # <<>>

(***************************************************************************)
(* C20: generateAllFiles writes index.html, app.js, server.js and          *)
(* package.json in that order.  When the template of one of them is        *)
(* missing, loadTemplate raises 'Template not found', no later file of the *)
(* list is written, the files written before it stay on disk, and the      *)
(* 'All files generated successfully' message is not printed.              *)
(***************************************************************************)
FixedOrder ==
    <<<<"i","n","d","e","x",".","h","t","m","l">>,
      <<"a","p","p",".","j","s">>,
      <<"s","e","r","v","e","r",".","j","s">>,
      <<"p","a","c","k","a","g","e",".","j","s","o","n">>>>

TemplateSuffix == <<".","t","e","m","p","l","a","t","e">>

\* the k-th template is the first one that is not on disk
FirstMissing(k) ==
    /\ FixedOrder[k] \o TemplateSuffix \notin templatesOnDisk
    /\ \A j \in 1..(k - 1) : FixedOrder[j] \o TemplateSuffix \in templatesOnDisk

FilesInFixedOrder ==
    /\ Len(written) <= Len(FixedOrder)
    /\ \A k \in 1..Len(written) :
         written[k] = pathJoin(locals.demoPath, FixedOrder[k])
    /\ \A k \in 1..Len(FixedOrder) :
         FirstMissing(k) =>
           /\ Len(written) <= k - 1
           /\ "All files generated successfully!" \notin console
           /\ error = "Template not found" => mpc = "exited" /\ Len(written) = k - 1
           /\ (mpc = "exited" /\ Len(written) = k - 1
                 /\ "generateAllFiles" \in Chars(called))
                => error = "Template not found"

\* the run has ended on the missing third template with two files written
FilesInFixedOrderWitness ==
    /\ FirstMissing(3)
    /\ mpc = "exited"
    /\ error = "Template not found"
    /\ Len(written) = 2
    /\ written[2] = pathJoin(locals.demoPath, FixedOrder[2])
    /\ "All files generated successfully!" \notin console

====
